---- MODULE Spec2Model ----
(***************************************************************************)
(* Model of script.py: process_texture_channels, the batch splitter of     *)
(* "_rmo" textures into one grayscale PNG per channel.                     *)
(*                                                                         *)
(* A file name is a sequence of one-character strings, a path a sequence   *)
(* of names ("" is the empty path), the file system a function from the    *)
(* paths that exist to their nodes.  An image is a sequence of bands, a    *)
(* band a sequence of 8-bit pixel values.                                  *)
(***************************************************************************)
EXTENDS Integers, Sequences, FiniteSets, TLC

VARIABLES cfg,          \* the arguments of process_texture_channels
          dir_order,    \* the order in which the file system lists a folder
          fs,           \* the file system
          start_fs,     \* the file system when the current run began
          pc,           \* where the run is
          run,          \* 1 in the first run, 2 in the second
          snapshot,     \* the list os.listdir returned
          idx,          \* position of the loop in snapshot (1-based)
          channels,     \* the bands of the image being processed
          base_name, output_dir,
          k,            \* position of the channel loop in channel_info
          trace,        \* what the current run did and printed, in order
          prev_trace,   \* the trace of the first run, in the second
          faults,       \* file-system faults met so far
          ret           \* what the function returned

vars == <<cfg, dir_order, fs, start_fs, pc, run, snapshot, idx, channels,
          base_name, output_dir, k, trace, prev_trace, faults, ret>>

\* Bounds of the model: the entries of the source folder at the start, and
\* the file-system faults (refused mkdir or write) met by the first run.
MaxFiles == 2
MaxFaults == 1

(***************************************************************************)
(* Strings                                                                 *)
(***************************************************************************)
UpperChars == <<"A","B","C","D","E","F","G","H","I","J","K","L","M",
                "N","O","P","Q","R","S","T","U","V","W","X","Y","Z">>
LowerChars == <<"a","b","c","d","e","f","g","h","i","j","k","l","m",
                "n","o","p","q","r","s","t","u","v","w","x","y","z">>

\* Code points order the characters: "." < "A".."Z" < "_" < "a".."z".
CharOrder == <<".">> \o UpperChars \o <<"_">> \o LowerChars

RankMap ==
    [c \in {CharOrder[i] : i \in 1..Len(CharOrder)} |->
        CHOOSE i \in 1..Len(CharOrder) : CharOrder[i] = c]

Rank(c) == RankMap[c]

\* str.lower() on one character
LowerChar(c) ==
    IF \E i \in 1..Len(UpperChars) : UpperChars[i] = c
    THEN LowerChars[CHOOSE i \in 1..Len(UpperChars) : UpperChars[i] = c]
    ELSE c

LowerMap == [c \in {CharOrder[i] : i \in 1..Len(CharOrder)} |-> LowerChar(c)]

\* str.lower()
lower(s) == [i \in 1..Len(s) |-> LowerMap[s[i]]]

\* sub in s
RECURSIVE FindFrom(_, _, _)
FindFrom(s, sub, i) ==
    IF i + Len(sub) - 1 > Len(s) THEN 0
    ELSE IF SubSeq(s, i, i + Len(sub) - 1) = sub THEN i
    ELSE FindFrom(s, sub, i + 1)

StrIn(sub, s) == FindFrom(s, sub, 1) # 0

\* s.endswith(suffix)
EndsWith(s, suffix) ==
    /\ Len(s) >= Len(suffix)
    /\ SubSeq(s, Len(s) - Len(suffix) + 1, Len(s)) = suffix

\* s.endswith(tuple of suffixes)
EndsWithAny(s, suffixes) == \E i \in 1..Len(suffixes) : EndsWith(s, suffixes[i])

\* s.rfind(c), 1-based, 0 when absent
RFind(s, c) ==
    IF \E i \in 1..Len(s) : s[i] = c
    THEN CHOOSE i \in 1..Len(s) : s[i] = c /\ \A j \in (i+1)..Len(s) : s[j] # c
    ELSE 0

\* os.path.splitext(name)[0] for a name without separators: the name is cut
\* at its last dot unless only dots precede it.
splitext_root(name) ==
    LET dot == RFind(name, ".")
    IN IF dot # 0 /\ \E j \in 1..(dot - 1) : name[j] # "."
       THEN SubSeq(name, 1, dot - 1)
       ELSE name

\* Lexicographic order of two names.
RECURSIVE LexLessFrom(_, _, _)
LexLessFrom(a, b, i) ==
    IF i > Len(a) THEN i <= Len(b)
    ELSE IF i > Len(b) THEN FALSE
    ELSE IF a[i] = b[i] THEN LexLessFrom(a, b, i + 1)
    ELSE Rank(a[i]) < Rank(b[i])

LexLess(a, b) == LexLessFrom(a, b, 1)

\* The names of S in ascending order: the i-th has i - 1 names before it.
SortNames(S) ==
    [i \in 1..Cardinality(S) |->
        CHOOSE x \in S : Cardinality({y \in S : LexLess(y, x)}) = i - 1]

Reverse(s) == [i \in 1..Len(s) |-> s[Len(s) + 1 - i]]

(***************************************************************************)
(* Constants of process_texture_channels                                   *)
(***************************************************************************)
Marker == <<"_","r","m","o">>

\* Mutant of channel_info: the blue and the alpha entries change places.
channel_info_Swapped ==
    << [suffix |-> <<"_","r">>, index |-> 0],
       [suffix |-> <<"_","g">>, index |-> 1],
       [suffix |-> <<"_","a">>, index |-> 3],
       [suffix |-> <<"_","b">>, index |-> 2] >>

\* channel_info, in insertion order: suffix and channel index (0-based)
channel_info ==
    << [suffix |-> <<"_","r">>, index |-> 0],
       [suffix |-> <<"_","g">>, index |-> 1],
       [suffix |-> <<"_","b">>, index |-> 2],
       [suffix |-> <<"_","a">>, index |-> 3] >>

supported_formats ==
    << <<".","p","n","g">>, <<".","j","p","g">>, <<".","j","p","e","g">>,
       <<".","t","g","a">>, <<".","t","i","f">>, <<".","t","i","f","f">>,
       <<".","b","m","p">>, <<".","e","x","r">> >>

PngExt == <<".","p","n","g">>

\* Mutant of Eligible: the name is tested as it is spelled.
Eligible_CaseSensitive(filename) ==
    /\ StrIn(Marker, filename)
    /\ EndsWithAny(filename, supported_formats)

\* The test of line 39.
Eligible(filename) ==
    LET lowered == lower(filename)
    IN /\ StrIn(Marker, lowered)
       /\ EndsWithAny(lowered, supported_formats)

(***************************************************************************)
(* Images                                                                  *)
(***************************************************************************)
\* A fully opaque band as large as band b.
OpaqueLike(b) == [i \in 1..Len(b) |-> 255]

\* img.convert('RGBA') unless the image is RGBA already, then img.split():
\* L -> (l,l,l,255), LA -> (l,l,l,a), RGB -> (r,g,b,255).
ConvertSplit(bands) ==
    CASE Len(bands) = 1 -> <<bands[1], bands[1], bands[1], OpaqueLike(bands[1])>>
      [] Len(bands) = 2 -> <<bands[1], bands[1], bands[1], bands[2]>>
      [] Len(bands) = 3 -> <<bands[1], bands[2], bands[3], OpaqueLike(bands[1])>>
      [] OTHER -> bands

\* 255 - np.array(channel), on uint8
InvertBand(b) == [i \in 1..Len(b) |-> (255 - b[i]) % 256]

\* Mutant of ShouldInvert: the underscore of the suffix is looked up.
ShouldInvert_WrongChar(inv, suffix) ==
    /\ inv.given
    /\ Len(inv.list) > 0
    /\ \E i \in 1..Len(inv.list) : inv.list[i] = suffix[1]

\* invert_channels and suffix[1] in invert_channels
ShouldInvert(inv, suffix) ==
    /\ inv.given
    /\ Len(inv.list) > 0
    /\ \E i \in 1..Len(inv.list) : inv.list[i] = suffix[2]

(***************************************************************************)
(* File system                                                             *)
(***************************************************************************)
DirNode == [kind |-> "dir", ok |-> FALSE, bands |-> <<>>]
FileNode(ok, bands) == [kind |-> "file", ok |-> ok, bands |-> bands]

Exists(f, p) == p \in DOMAIN f
IsDir(f, p) == p \in DOMAIN f /\ f[p].kind = "dir"
Parent(p) == SubSeq(p, 1, Len(p) - 1)

\* A path of one name lies in the working directory, which exists.
ParentIsDir(f, p) == Len(p) >= 1 /\ (Len(p) = 1 \/ IsDir(f, Parent(p)))

\* os.makedirs(p) succeeds: p is not empty, does not exist, and no ancestor
\* is a file.
MakedirsOK(f, p) ==
    /\ Len(p) >= 1
    /\ p \notin DOMAIN f
    /\ \A n \in 1..(Len(p) - 1) :
          SubSeq(p, 1, n) \in DOMAIN f => f[SubSeq(p, 1, n)].kind = "dir"

Makedirs(f, p) ==
    LET made == {SubSeq(p, 1, n) : n \in 1..Len(p)} \ DOMAIN f
    IN [q \in DOMAIN f \cup made |-> IF q \in made THEN DirNode ELSE f[q]]

\* The names os.listdir(p) returns.
Entries(f, p) ==
    {q[Len(q)] : q \in {r \in DOMAIN f : Len(r) = Len(p) + 1 /\ SubSeq(r, 1, Len(p)) = p}}

\* os.listdir(p): the order of the names is the file system's; the model
\* takes a file system that lists ascending and one that lists descending.
Listdir(f, p) ==
    LET sorted == SortNames(Entries(f, p))
    IN IF dir_order = "ascending" THEN sorted ELSE Reverse(sorted)

\* Image.open(p) and the decode succeed.
CanOpen(f, p) == p \in DOMAIN f /\ f[p].kind = "file" /\ f[p].ok

\* channel.save(p) can open p for writing.
CanSave(f, p) == ParentIsDir(f, p) /\ ~IsDir(f, p)

WriteFile(f, p, node) ==
    [q \in DOMAIN f \cup {p} |-> IF q = p THEN node ELSE f[q]]

(***************************************************************************)
(* Inputs                                                                  *)
(***************************************************************************)
InDir == <<"i","n">>
OutDir == <<"o","u","t">>

w_rmo_png == <<"w","_","r","m","o",".","p","n","g">>
M_RMO_TGA == <<"M","_","R","M","O",".","T","G","A">>
fd_png == <<"f","d",".","p","n","g">>
x_rmo_jpg == <<"x","_","r","m","o",".","j","p","g">>
w_rmo_tga == <<"w","_","r","m","o",".","t","g","a">>
w_rmo == <<"w","_","r","m","o">>

\* The entries a source folder is drawn from.
Candidates ==
    { \* an RGBA texture
      [name |-> w_rmo_png,
       node |-> FileNode(TRUE, << <<200, 0>>, <<100, 255>>, <<50, 1>>, <<255, 128>> >>)],
      \* an RGB texture, its name in capitals
      [name |-> M_RMO_TGA,
       node |-> FileNode(TRUE, << <<10, 254>>, <<0, 55>>, <<255, 7>> >>)],
      \* an image without the marker
      [name |-> fd_png,
       node |-> FileNode(TRUE, << <<1, 2>>, <<3, 4>>, <<5, 6>>, <<7, 8>> >>)],
      \* a file that does not decode
      [name |-> x_rmo_jpg, node |-> FileNode(FALSE, <<>>)],
      \* a gray texture with alpha, with the base name of w_rmo.png
      [name |-> w_rmo_tga, node |-> FileNode(TRUE, << <<33, 0>>, <<77, 255>> >>)],
      \* a file without extension, named as the subfolder of w_rmo.png
      [name |-> w_rmo, node |-> FileNode(FALSE, <<>>)] }

NoInvert == [given |-> FALSE, list |-> <<>>]
InvertLists == {NoInvert,
                [given |-> TRUE, list |-> <<>>],
                [given |-> TRUE, list |-> <<"r">>],
                [given |-> TRUE, list |-> <<"a", "x">>]}

\* (input_folder, output_folder): the entry point's "" for both, one folder
\* for both, two folders.
FolderPairs == { << <<>>, <<>> >>, << <<InDir>>, <<InDir>> >>, << <<InDir>>, <<OutDir>> >> }

Configs ==
    { [input_folder |-> fp[1], output_folder |-> fp[2],
       invert_channels |-> inv, create_subfolders |-> sub] :
         fp \in FolderPairs, inv \in InvertLists, sub \in BOOLEAN }

EmptyFS == [p \in {} |-> DirNode]

FolderFS(dir, S) ==
    [p \in {dir} \cup {dir \o <<c.name>> : c \in S} |->
        IF p = dir THEN DirNode
        ELSE (CHOOSE c \in S : dir \o <<c.name>> = p).node]

Merge(f, g) == [p \in DOMAIN f \cup DOMAIN g |-> IF p \in DOMAIN f THEN f[p] ELSE g[p]]

\* The file systems a run can start from: the source folder is missing, or
\* holds at most MaxFiles of the candidates; a separate output folder is
\* missing or empty.
InitialFS(c) ==
    IF c.input_folder = <<>> THEN {EmptyFS}
    ELSE LET srcs == {EmptyFS} \cup
                     {FolderFS(c.input_folder, S) :
                        S \in {T \in SUBSET Candidates : Cardinality(T) <= MaxFiles}}
             outs == IF c.output_folder = c.input_folder THEN {EmptyFS}
                     ELSE {EmptyFS, FolderFS(c.output_folder, {})}
         IN {Merge(s, o) : s \in srcs, o \in outs}

(***************************************************************************)
(* The run                                                                 *)
(***************************************************************************)
NoReturn == [returned |-> FALSE, isNone |-> TRUE, value |-> <<>>]
ReturnNone == [returned |-> TRUE, isNone |-> TRUE, value |-> <<>>]

Event(type, file, path, data, n) ==
    [type |-> type, file |-> file, path |-> path, data |-> data, n |-> n]

Init ==
    /\ cfg \in Configs
    /\ dir_order \in {"ascending", "descending"}
    /\ fs \in InitialFS(cfg)
    /\ start_fs = fs
    /\ pc = "start"
    /\ run = 1
    /\ snapshot = <<>>
    /\ idx = 0
    /\ channels = <<>>
    /\ base_name = <<>>
    /\ output_dir = <<>>
    /\ k = 0
    /\ trace = <<>>
    /\ prev_trace = <<>>
    /\ faults = 0
    /\ ret = NoReturn

\* Lines 22-23: the output folder is created when it does not exist.
EnsureOutputFolder ==
    /\ pc = "start"
    /\ \/ Exists(fs, cfg.output_folder) /\ fs' = fs
       \/ /\ ~Exists(fs, cfg.output_folder)
          /\ MakedirsOK(fs, cfg.output_folder)
          /\ fs' = Makedirs(fs, cfg.output_folder)
    /\ pc' = "list"
    /\ UNCHANGED <<cfg, dir_order, start_fs, run, snapshot, idx, channels, base_name,
                   output_dir, k, trace, prev_trace, faults, ret>>

\* Lines 22-23: os.makedirs raises, outside any try.
EnsureOutputFolderRaises ==
    /\ pc = "start"
    /\ ~Exists(fs, cfg.output_folder)
    /\ ~MakedirsOK(fs, cfg.output_folder)
    /\ pc' = "crashed"
    /\ UNCHANGED <<cfg, dir_order, fs, start_fs, run, snapshot, idx, channels, base_name,
                   output_dir, k, trace, prev_trace, faults, ret>>

\* Line 37: os.listdir(input_folder) is evaluated once, to a list.
ListDir ==
    /\ pc = "list"
    /\ IsDir(fs, cfg.input_folder)
    /\ snapshot' = Listdir(fs, cfg.input_folder)
    /\ idx' = 1
    /\ pc' = "loop"
    /\ UNCHANGED <<cfg, dir_order, fs, start_fs, run, channels, base_name, output_dir, k,
                   trace, prev_trace, faults, ret>>

\* Line 37: os.listdir raises, outside any try.
ListDirRaises ==
    /\ pc = "list"
    /\ ~IsDir(fs, cfg.input_folder)
    /\ pc' = "crashed"
    /\ UNCHANGED <<cfg, dir_order, fs, start_fs, run, snapshot, idx, channels, base_name,
                   output_dir, k, trace, prev_trace, faults, ret>>

\* Line 39: an entry that fails the test is passed over.
SkipEntry ==
    /\ pc = "loop"
    /\ idx <= Len(snapshot)
    /\ ~Eligible(snapshot[idx])
    /\ idx' = idx + 1
    /\ UNCHANGED <<cfg, dir_order, fs, start_fs, pc, run, snapshot, channels, base_name,
                   output_dir, k, trace, prev_trace, faults, ret>>

\* Mutant of Except: the exception is not caught.
Except_Escapes(filename) ==
    /\ trace' = trace
    /\ idx' = idx
    /\ pc' = "crashed"

\* Mutant of Except: the exception is swallowed without a line.
Except_Silent(filename) ==
    /\ trace' = trace
    /\ idx' = idx + 1
    /\ pc' = "loop"

\* Lines 85-86: the handler of the per-file try logs the error; the loop
\* goes on with the next entry.
Except(filename) ==
    /\ trace' = Append(trace, Event("Error", filename, <<>>, <<>>, 0))
    /\ idx' = idx + 1
    /\ pc' = "loop"

\* Lines 42-53: open, convert to RGBA, split, take the base name.
OpenImage ==
    /\ pc = "loop"
    /\ idx <= Len(snapshot)
    /\ Eligible(snapshot[idx])
    /\ LET filename == snapshot[idx]
           img_path == cfg.input_folder \o <<filename>>
       IN /\ CanOpen(fs, img_path)
          /\ channels' = ConvertSplit(fs[img_path].bands)
          /\ base_name' = splitext_root(filename)
          /\ trace' = Append(trace, Event("Open", filename, img_path,
                                          ConvertSplit(fs[img_path].bands),
                                          Len(fs[img_path].bands)))
    /\ pc' = "outdir"
    /\ UNCHANGED <<cfg, dir_order, fs, start_fs, run, snapshot, idx, output_dir, k,
                   prev_trace, faults, ret>>

\* Line 43: Image.open raises (a directory, a missing or an undecodable file).
OpenImageRaises ==
    /\ pc = "loop"
    /\ idx <= Len(snapshot)
    /\ Eligible(snapshot[idx])
    /\ ~CanOpen(fs, cfg.input_folder \o <<snapshot[idx]>>)
    /\ Except(snapshot[idx])
    /\ UNCHANGED <<cfg, dir_order, fs, start_fs, run, snapshot, channels, base_name,
                   output_dir, k, prev_trace, faults, ret>>

\* Lines 62-63: without subfolders the planes go to the output folder.
UseOutputFolder ==
    /\ pc = "outdir"
    /\ ~cfg.create_subfolders
    /\ output_dir' = cfg.output_folder
    /\ k' = 1
    /\ pc' = "channels"
    /\ UNCHANGED <<cfg, dir_order, fs, start_fs, run, snapshot, idx, channels, base_name,
                   trace, prev_trace, faults, ret>>

\* Lines 56-61: the subfolder named after the base name, made when no such
\* path exists.
UseSubfolder ==
    /\ pc = "outdir"
    /\ cfg.create_subfolders
    /\ LET subfolder_path == cfg.output_folder \o <<base_name>>
       IN /\ \/ Exists(fs, subfolder_path) /\ fs' = fs /\ trace' = trace
             \/ /\ ~Exists(fs, subfolder_path)
                /\ MakedirsOK(fs, subfolder_path)
                /\ fs' = Makedirs(fs, subfolder_path)
                /\ trace' = Append(trace, Event("Mkdir", snapshot[idx],
                                                subfolder_path, <<>>, 0))
          /\ output_dir' = subfolder_path
    /\ k' = 1
    /\ pc' = "channels"
    /\ UNCHANGED <<cfg, dir_order, start_fs, run, snapshot, idx, channels, base_name,
                   prev_trace, faults, ret>>

\* Line 60: os.makedirs raises (the file system refuses).
SubfolderRaises ==
    /\ pc = "outdir"
    /\ cfg.create_subfolders
    /\ ~Exists(fs, cfg.output_folder \o <<base_name>>)
    /\ \/ ~MakedirsOK(fs, cfg.output_folder \o <<base_name>>) /\ faults' = faults
       \/ run = 1 /\ faults < MaxFaults /\ faults' = faults + 1
    /\ Except(snapshot[idx])
    /\ UNCHANGED <<cfg, dir_order, fs, start_fs, run, snapshot, channels, base_name,
                   output_dir, k, prev_trace, ret>>

\* The plane of channel_info entry n: inverted when its letter is listed.
PlaneOf(n) ==
    LET info == channel_info[n]
        channel == channels[info.index + 1]
    IN IF ShouldInvert(cfg.invert_channels, info.suffix)
       THEN InvertBand(channel) ELSE channel

\* Mutant of OutputPath: the plane goes to the output folder itself.
OutputPath_Flat(n) ==
    cfg.output_folder \o <<base_name \o channel_info[n].suffix \o PngExt>>

\* Lines 76-77: the path of the plane of channel_info entry n.
OutputPath(n) == output_dir \o <<base_name \o channel_info[n].suffix \o PngExt>>

\* Lines 66-81: one iteration of the channel loop; a channel the image does
\* not have is passed over.
SaveChannel ==
    /\ pc = "channels"
    /\ k <= Len(channel_info)
    /\ IF channel_info[k].index < Len(channels)
       THEN /\ CanSave(fs, OutputPath(k))
            /\ fs' = WriteFile(fs, OutputPath(k), FileNode(TRUE, <<PlaneOf(k)>>))
            /\ trace' = trace \o
                 << Event("Write", snapshot[idx], OutputPath(k), <<PlaneOf(k)>>, k),
                    Event("Saved", snapshot[idx], OutputPath(k), <<>>, k) >>
       ELSE fs' = fs /\ trace' = trace
    /\ k' = k + 1
    /\ UNCHANGED <<cfg, dir_order, start_fs, pc, run, snapshot, idx, channels, base_name,
                   output_dir, prev_trace, faults, ret>>

\* Line 80: channel.save raises: the path cannot be written, or the file
\* system refuses; a file that was there before may be left damaged.
SaveChannelRaises ==
    /\ pc = "channels"
    /\ k <= Len(channel_info)
    /\ channel_info[k].index < Len(channels)
    /\ \/ ~CanSave(fs, OutputPath(k)) /\ faults' = faults /\ fs' = fs
       \/ /\ CanSave(fs, OutputPath(k))
          /\ run = 1
          /\ faults < MaxFaults
          /\ faults' = faults + 1
          /\ \/ fs' = fs
             \/ /\ Exists(fs, OutputPath(k))
                /\ fs' = WriteFile(fs, OutputPath(k), FileNode(FALSE, <<>>))
    /\ Except(snapshot[idx])
    /\ UNCHANGED <<cfg, dir_order, start_fs, run, snapshot, channels, base_name,
                   output_dir, k, prev_trace, ret>>

\* Line 83: all channels done.
FinishFile ==
    /\ pc = "channels"
    /\ k > Len(channel_info)
    /\ trace' = Append(trace, Event("Processed", snapshot[idx], <<>>, <<>>, 0))
    /\ idx' = idx + 1
    /\ pc' = "loop"
    /\ UNCHANGED <<cfg, dir_order, fs, start_fs, run, snapshot, channels, base_name,
                   output_dir, k, prev_trace, faults, ret>>

\* Mutant of Return: the loop stops one entry short.
Return_Early ==
    /\ pc = "loop"
    /\ idx >= Len(snapshot)
    /\ pc' = "done"
    /\ ret' = [returned |-> TRUE, isNone |-> TRUE, value |-> <<>>]
    /\ UNCHANGED <<cfg, dir_order, fs, start_fs, run, snapshot, idx, channels,
                   base_name, output_dir, k, trace, prev_trace, faults>>

\* The loop of line 37 is exhausted; the function ends without a return
\* statement.
Return ==
    /\ pc = "loop"
    /\ idx > Len(snapshot)
    /\ pc' = "done"
    /\ ret' = ReturnNone
    /\ UNCHANGED <<cfg, dir_order, fs, start_fs, run, snapshot, idx, channels, base_name,
                   output_dir, k, trace, prev_trace, faults>>

\* The caller runs the function a second time with the same arguments, over
\* what a first run without file-system faults left.
Rerun ==
    /\ pc = "done"
    /\ run = 1
    /\ faults = 0
    /\ run' = 2
    /\ pc' = "start"
    /\ start_fs' = fs
    /\ prev_trace' = trace
    /\ trace' = <<>>
    /\ snapshot' = <<>>
    /\ idx' = 0
    /\ ret' = NoReturn
    /\ UNCHANGED <<cfg, dir_order, fs, channels, base_name, output_dir, k, faults>>

Step ==
    \/ EnsureOutputFolder
    \/ EnsureOutputFolderRaises
    \/ ListDir
    \/ ListDirRaises
    \/ SkipEntry
    \/ OpenImage
    \/ OpenImageRaises
    \/ UseOutputFolder
    \/ UseSubfolder
    \/ SubfolderRaises
    \/ SaveChannel
    \/ SaveChannelRaises
    \/ FinishFile
    \/ Return

Next == Step \/ Rerun

Spec == Init /\ [][Next]_vars

\* The interpreter runs the function to its end: a step that can be taken is
\* taken.
FairSpec == Spec /\ WF_vars(Step)

(***************************************************************************)
(* Properties                                                              *)
(***************************************************************************)
TraceIdx == 1..Len(trace)

\* The events of type t that concern source file f.
EventsOf(f, t) == {i \in TraceIdx : trace[i].file = f /\ trace[i].type = t}

\* The entries of the snapshot the loop is done with.
Visited == {snapshot[i] : i \in {j \in 1..Len(snapshot) : j < idx}}

\* The file reached its 'Processed' or its 'Error' line.
Ended(f) == EventsOf(f, "Processed") \cup EventsOf(f, "Error") # {}

\* The eligibility test as the specification words it.
ClaimedExts ==
    { <<".","p","n","g">>, <<".","j","p","g">>, <<".","j","p","e","g">>,
      <<".","t","g","a">>, <<".","t","i","f">>, <<".","t","i","f","f">>,
      <<".","b","m","p">>, <<".","e","x","r">> }

HasExt(n, e) ==
    /\ Len(n) >= Len(e)
    /\ \A j \in 1..Len(e) : LowerMap[n[Len(n) - Len(e) + j]] = e[j]

ClaimedEligible(n) ==
    /\ \E i \in 1..(Len(n) - 3) :
          /\ LowerMap[n[i]] = "_" /\ LowerMap[n[i + 1]] = "r"
          /\ LowerMap[n[i + 2]] = "m" /\ LowerMap[n[i + 3]] = "o"
    /\ \E e \in ClaimedExts : HasExt(n, e)

\* The source file name without its extension.
ClaimedBase(n) ==
    SubSeq(n, 1, Len(n) - Len(CHOOSE e \in ClaimedExts : HasExt(n, e)))

ClaimedLetters == <<"r", "g", "b", "a">>

\* <base>_c.png
ClaimedName(n, c) == ClaimedBase(n) \o <<"_", c>> \o <<".","p","n","g">>

\* The folder the planes of source file n belong in.
ClaimedDir(n) ==
    IF cfg.create_subfolders THEN cfg.output_folder \o <<ClaimedBase(n)>>
    ELSE cfg.output_folder

\* The channel letter in the name of an output path: <base>_c.png.
LetterOf(path) == path[Len(path)][Len(path[Len(path)]) - 4]

LetterIndex(c) == CHOOSE j \in 1..4 : ClaimedLetters[j] = c

\* The invert set of the run.
InvertSet ==
    IF cfg.invert_channels.given
    THEN {cfg.invert_channels.list[i] : i \in 1..Len(cfg.invert_channels.list)}
    ELSE {}

\* The 'Open' event of the source file of event i: its decoded channels.
OpenOf(i) == trace[CHOOSE j \in TraceIdx :
                     j < i /\ trace[j].type = "Open" /\ trace[j].file = trace[i].file]

\* C1: a failure on one file never aborts the batch: an exception escapes
\* only before the loop starts; every eligible entry the loop is done with
\* reached its 'Processed' or 'Error' line, whatever failed before it, a
\* processed one with all its planes written; and the loop ends only past
\* the last entry.
C1_FailureNeverAborts ==
    /\ pc = "crashed" => (idx = 0 /\ trace = <<>>)
    /\ \A f \in Visited : ClaimedEligible(f) => Ended(f)
    /\ \A i \in TraceIdx :
          trace[i].type = "Processed" =>
             Cardinality(EventsOf(trace[i].file, "Write")) = Len(ClaimedLetters)
    /\ pc = "done" => idx = Len(snapshot) + 1

\* C1 witness: a finished run in which a file failed and a later file was
\* processed and written.
C1_Witness ==
    /\ pc = "done"
    /\ \E i, j \in TraceIdx :
          /\ i < j
          /\ trace[i].type = "Error"
          /\ trace[j].type = "Processed"
          /\ EventsOf(trace[j].file, "Write") # {}

\* C2: an entry is processed if and only if its lower-cased name contains
\* _rmo and ends with a supported extension; for an entry that fails the
\* test nothing is written, no subfolder is made and no line is logged.
C2_EligibilityFilter ==
    /\ \A f \in Visited : ClaimedEligible(f) <=> Ended(f)
    /\ \A f \in {trace[i].file : i \in TraceIdx} :
          /\ \E j \in 1..Len(snapshot) : snapshot[j] = f
          /\ ClaimedEligible(f)
          /\ f \notin {fd_png, w_rmo}
    /\ M_RMO_TGA \in Visited => Ended(M_RMO_TGA)

\* C2 witness: a finished run over a folder with the mixed-case M_RMO.TGA,
\* which was processed, and an entry that fails the test.
C2_Witness ==
    /\ pc = "done"
    /\ EventsOf(M_RMO_TGA, "Processed") # {}
    /\ \E f \in Visited : ~ClaimedEligible(f)

\* C3: the number of planes emitted for a processed image is min(4, channel
\* count of the decoded image), and an image with fewer than 4 channels
\* yields no _a file.
C3_PlanesMatchChannelCount ==
    \A i \in TraceIdx :
       trace[i].type = "Processed" =>
          LET f == trace[i].file
              n == OpenOf(i).n
          IN /\ Cardinality(EventsOf(f, "Write")) = IF n < 4 THEN n ELSE 4
             /\ n < 4 => \A w \in EventsOf(f, "Write") : LetterOf(trace[w].path) # "a"

\* C4: the pixel written to <base>_c.png is 255 - v when c is in the invert
\* set and v otherwise, v being the pixel of channel c of the image; with no
\* invert set, or with entries outside r, g, b, a only, the plane is the
\* channel.
C4_InversionLaw ==
    \A i \in TraceIdx :
       trace[i].type = "Write" =>
          LET c == LetterOf(trace[i].path)
              source == OpenOf(i).data[LetterIndex(c)]
              written == trace[i].data[1]
          IN /\ c \in {"r", "g", "b", "a"}
             /\ Len(written) = Len(source)
             /\ \A px \in 1..Len(source) :
                   /\ source[px] \in 0..255
                   /\ written[px] = IF c \in InvertSet THEN 255 - source[px]
                                    ELSE source[px]
             /\ (InvertSet \cap {"r", "g", "b", "a"} = {}) => written = source

\* C4 witness: a plane was written inverted and another one as it was.
C4_Witness ==
    \E i, j \in TraceIdx :
       /\ trace[i].type = "Write" /\ LetterOf(trace[i].path) \in InvertSet
       /\ trace[i].data[1] # OpenOf(i).data[LetterIndex(LetterOf(trace[i].path))]
       /\ trace[j].type = "Write" /\ LetterOf(trace[j].path) \notin InvertSet
       /\ "x" \in InvertSet

\* C5: for a processed RGBA source exactly the four files <base>_r.png,
\* <base>_g.png, <base>_b.png, <base>_a.png are written, in <dest>/ without
\* subfolders and in <dest>/<base>/ (made if absent) with them.
C5_OutputLayout ==
    \A i \in TraceIdx :
       (trace[i].type = "Processed" /\ OpenOf(i).n = 4) =>
          LET f == trace[i].file
          IN /\ {trace[w].path : w \in EventsOf(f, "Write")}
                  = {ClaimedDir(f) \o <<ClaimedName(f, c)>> : c \in {"r", "g", "b", "a"}}
             /\ Cardinality(EventsOf(f, "Write")) = 4
             /\ \A m \in EventsOf(f, "Mkdir") :
                   cfg.create_subfolders /\ trace[m].path = ClaimedDir(f)
             /\ IsDir(fs, ClaimedDir(f))
             /\ \A w \in EventsOf(f, "Write") :
                   Exists(fs, trace[w].path) /\ fs[trace[w].path].kind = "file"

\* C5 witness: an RGBA source was processed into a subfolder made for it.
C5_Witness ==
    \E i \in TraceIdx :
       /\ trace[i].type = "Processed"
       /\ OpenOf(i).n = 4
       /\ EventsOf(trace[i].file, "Mkdir") # {}

\* The events of type t, of any file.
EventsOfType(t) == {i \in TraceIdx : trace[i].type = t}

\* C6 as stated: the function returns the pair (count_processed,
\* count_failed) of the run.
C6_ReturnsCounts ==
    pc = "done" =>
       /\ ~ret.isNone
       /\ ret.value = <<Cardinality(EventsOfType("Processed")),
                        Cardinality(EventsOfType("Error"))>>

\* C6 amended: the function returns nothing (None); the counts are those of
\* the log only: the 'Processed' lines and the 'Error' lines together are as
\* many as the eligible entries of the snapshot.
C6_ReturnsNoneLogCounts ==
    pc = "done" =>
       /\ ret.returned /\ ret.isNone
       /\ Cardinality(EventsOfType("Processed")) + Cardinality(EventsOfType("Error"))
            = Cardinality({i \in 1..Len(snapshot) : ClaimedEligible(snapshot[i])})

\* C6 witness: a run returned after it processed one file and failed on
\* another.
C6_Witness ==
    /\ pc = "done"
    /\ ret.returned
    /\ EventsOfType("Processed") # {}
    /\ EventsOfType("Error") # {}

\* C7: a source folder missing when the run starts is fatal and is never
\* created: the run does not get past the listing, logs nothing per file, and
\* the folder is still missing.
C7_MissingSourceFatal ==
    ~Exists(start_fs, cfg.input_folder) =>
       /\ pc \in {"start", "list", "crashed"}
       /\ trace = <<>>
       /\ ~Exists(fs, cfg.input_folder)

\* The paths a trace wrote.
Written(t) == {t[i].path : i \in {j \in 1..Len(t) : t[j].type = "Write"}}

\* C8: a second run with the same arguments over what the first run left
\* writes the paths the first run wrote, with the same contents, and adds no
\* file or directory.
C8_RerunIdempotent ==
    (run = 2 /\ pc = "done") =>
       /\ Written(trace) = Written(prev_trace)
       /\ fs = start_fs

\* The position of entry f in the snapshot.
Pos(f) == CHOOSE j \in 1..Len(snapshot) : snapshot[j] = f

Listed == pc \in {"loop", "outdir", "channels", "done"}

\* The entries of the source folder when the run began.
EntriesAtStart ==
    {p[Len(p)] : p \in {q \in DOMAIN start_fs :
                          /\ Len(q) = Len(cfg.input_folder) + 1
                          /\ SubSeq(q, 1, Len(cfg.input_folder)) = cfg.input_folder}}

C9_Snapshot ==
    /\ Listed => /\ {snapshot[i] : i \in 1..Len(snapshot)} = EntriesAtStart
                 /\ Len(snapshot) = Cardinality(EntriesAtStart)
                 /\ idx \in 1..(Len(snapshot) + 1)
    /\ \A a \in TraceIdx :
          a < Len(trace) => Pos(trace[a].file) <= Pos(trace[a + 1].file)
    /\ \A i \in TraceIdx :
          /\ Pos(trace[i].file) <= idx
          /\ Pos(trace[i].file) < idx <=> Ended(trace[i].file)
          /\ Cardinality(EventsOf(trace[i].file, "Open")) <= 1
          /\ Cardinality(EventsOf(trace[i].file, "Processed")
                           \cup EventsOf(trace[i].file, "Error")) <= 1
    /\ pc = "done" => idx = Len(snapshot) + 1

C9_Steps ==
    /\ snapshot' # snapshot =>
          \/ pc = "list" /\ trace = <<>>
          \/ pc = "done" /\ pc' = "start"
    /\ (idx' # idx /\ pc # "list" /\ pc' # "start") => idx' = idx + 1

\* C9: the source folder is listed once, before any file is processed; the
\* loop visits each entry of that list once, in turn, each to its
\* 'Processed' or 'Error' line before the next; what the run creates is not
\* in the list; and the loop ends after the last entry.
C9_SnapshotOnceAndTerminates ==
    /\ []C9_Snapshot
    /\ [][C9_Steps]_vars
    /\ (pc = "loop") ~> (pc = "done")

\* C9 witness: a run over a folder it also writes into ended, and the folder
\* then holds an eligible file that was not in the list.
C9_Witness ==
    /\ pc = "done"
    /\ Len(snapshot) >= 2
    /\ \E f \in Entries(fs, cfg.input_folder) :
          ClaimedEligible(f) /\ f \notin EntriesAtStart

\* The letters of the planes written for f, in the order of the writes.
RECURSIVE LettersWritten(_, _)
LettersWritten(f, n) ==
    IF n = 0 THEN <<>>
    ELSE IF trace[n].type = "Write" /\ trace[n].file = f
         THEN Append(LettersWritten(f, n - 1), LetterOf(trace[n].path))
         ELSE LettersWritten(f, n - 1)

\* C10: the planes of a file are written in the order _r, _g, _b, _a, each
\* write followed at once by its 'Saved' line; 'Processed' comes after all
\* the planes; a file that fails has one 'Error' line and no 'Processed'
\* line, the planes written before are a prefix of _r, _g, _b, _a and stay on
\* disk; every eligible file ends with exactly one of the two lines.
C10_EventOrder ==
    /\ \A i \in TraceIdx :
          /\ trace[i].type = "Write" =>
                /\ i + 1 <= Len(trace)
                /\ trace[i + 1].type = "Saved"
                /\ trace[i + 1].path = trace[i].path
                /\ Exists(fs, trace[i].path) /\ fs[trace[i].path].kind = "file"
          /\ trace[i].type = "Saved" =>
                i > 1 /\ trace[i - 1].type = "Write" /\ trace[i - 1].path = trace[i].path
          /\ trace[i].type \in {"Processed", "Error"} =>
                LET f == trace[i].file
                    w == LettersWritten(f, Len(trace))
                IN /\ Len(w) <= 4
                   /\ w = SubSeq(ClaimedLetters, 1, Len(w))
                   /\ \A j \in EventsOf(f, "Write") : j < i
                   /\ EventsOf(f, "Processed") \cup EventsOf(f, "Error") = {i}
                   /\ trace[i].type = "Processed" => w = ClaimedLetters
    /\ \A f \in {trace[i].file : i \in TraceIdx} :
          LET w == LettersWritten(f, Len(trace))
          IN Len(w) <= 4 /\ w = SubSeq(ClaimedLetters, 1, Len(w))
    /\ pc = "done" =>
          \A j \in 1..Len(snapshot) :
             ClaimedEligible(snapshot[j]) =>
                Cardinality(EventsOf(snapshot[j], "Processed")
                              \cup EventsOf(snapshot[j], "Error")) = 1

\* C10 witness: a run ended in which a file failed after exactly its _r and
\* _g planes were written.
C10_Witness ==
    /\ pc = "done"
    /\ \E i \in TraceIdx :
          /\ trace[i].type = "Error"
          /\ LettersWritten(trace[i].file, Len(trace)) = <<"r", "g">>

====
